---- MODULE Spec2Model ----
(***************************************************************************)
(* Model of the akkadia language server's JSON-RPC dispatch engine         *)
(* (src/akkadia/src/server/mod.rs and src/akkadia/src/actions).            *)
(*                                                                         *)
(* One step of the model is one call of LsService::handle_message: read    *)
(* one message from the reader, filter it on the shutdown flag, parse it,  *)
(* route it by method name, run the handler and write the reply.           *)
(***************************************************************************)
EXTENDS Integers, Sequences, FiniteSets, TLC

(***************************************************************************)
(* Bounds of the model.                                                    *)
(***************************************************************************)
\* Largest number of messages the reader holds (MockMsgReader.messages.len()).
MaxMsgs == 2
\* Largest numeric request id a client sends.
MaxId == 2
\* Largest number of content-change entries of one didChange notification.
MaxChanges == 2
\* Largest number of characters of a line given to find_word_at_pos.
MaxLine == 4
\* Largest number of columns a cursor given to find_word_at_pos lies beyond
\* the end of its line.
MaxBeyond == 2

(***************************************************************************)
(* Program constants.                                                      *)
(***************************************************************************)
\* std::mem::size_of of the response types of the request actions.
SizeOfAck == 0
SizeOfUnit == 0
SizeOfVec == 24

(***************************************************************************)
(* JSON-RPC ids (jsonrpc_core::Id).  A string id is a sequence of          *)
(* characters, so that parsing it is something the model computes.         *)
(***************************************************************************)
NoId == [k |-> "None", n |-> 0, s |-> <<>>]
NullId == [k |-> "Null", n |-> 0, s |-> <<>>]
NumId(n) == [k |-> "Num", n |-> n, s |-> <<>>]
StrId(s) == [k |-> "Str", n |-> 0, s |-> s]
\* An id of a shape jsonrpc_core::Id does not deserialize from
\* (array, object, boolean, fractional or negative number).
BadId == [k |-> "Bad", n |-> 0, s |-> <<>>]

IdStrings == { <<"1", "1">>, <<"a", "b", "c">> }

Ids == {NoId, NullId, BadId} \cup {NumId(n) : n \in 1..MaxId}
          \cup {StrId(s) : s \in IdStrings}

(***************************************************************************)
(* Parameters.  shape is the JSON shape of the `params` member; typed is   *)
(* the parameter type the value deserializes into ("none": no struct       *)
(* type); the other fields are the contents the handlers read.             *)
(***************************************************************************)
NoUri == [scheme |-> "none", path |-> ""]
FileUri == [scheme |-> "file", path |-> "/a"]
\* A `file` URI whose to_file_path() fails (it names a host).
FileHostUri == [scheme |-> "file", path |-> ""]
GitUri == [scheme |-> "git", path |-> "/a"]
Uris == {FileUri, FileHostUri, GitUri}

\* A TextDocumentContentChangeEvent: range (Option), range_length (Option,
\* -1 is None), text.
ChangeEvent(range, len, text) == [range |-> range, len |-> len, text |-> text]
ChangeEvents == { ChangeEvent("r1", 3, "x"), ChangeEvent("r1", -1, "y"),
                  ChangeEvent("none", -1, "z") }

RECURSIVE SeqsUpTo(_, _)
SeqsUpTo(S, n) ==
    IF n = 0 THEN { <<>> }
    ELSE LET shorter == SeqsUpTo(S, n - 1)
         IN  shorter \cup { Append(q, x) : q \in shorter, x \in S }

P(shape, typed, root, uri, text, changes, item) ==
    [shape |-> shape, typed |-> typed, root |-> root, uri |-> uri,
     text |-> text, changes |-> changes, item |-> item]

Untyped(shape) == P(shape, "none", "", NoUri, "", <<>>, "")

\* Params of no particular type: absent, null, a scalar, or an object that
\* has the fields of no parameter struct.
GenericParams == { Untyped(sh) : sh \in {"absent", "null", "scalar", "object"} }

\* root is InitializeParams.root_path ("": None).
InitializeParams == { P("object", "InitializeParams", r, NoUri, "", <<>>, "") : r \in {"", "/ws", "/ws2"} }
DidOpenParams == { P("object", "DidOpenTextDocumentParams", "", u, "t", <<>>, "") : u \in Uris }
DidChangeParams ==
    { P("object", "DidChangeTextDocumentParams", "", FileUri, "", cs, "") :
         cs \in SeqsUpTo(ChangeEvents, MaxChanges) }
    \cup { P("object", "DidChangeTextDocumentParams", "", u, "", <<ChangeEvent("none", -1, "z")>>, "") :
         u \in Uris \ {FileUri} }
CancelParams == { P("object", "CancelParams", "", NoUri, "", <<>>, "") }
DidSaveParams == { P("object", "DidSaveTextDocumentParams", "", u, "", <<>>, "") : u \in Uris }
WatchedFilesParams == { P("object", "DidChangeWatchedFilesParams", "", NoUri, "", <<>>, "") }
PositionParams == { P("object", "TextDocumentPositionParams", "", u, "", <<>>, "") : u \in Uris }
CompletionItems == { P("object", "CompletionItem", "", NoUri, "", <<>>, i) : i \in {"i1", "i2"} }

(***************************************************************************)
(* The action registry: the METHOD and Params of every Action.             *)
(***************************************************************************)
NotificationMethods ==
    << "exit", "initialized", "textDocument/didOpen", "textDocument/didChange",
       "$/cancelRequest", "textDocument/didSave", "workspace/didChangeWatchedFiles" >>

RequestMethods ==
    << "shutdown", "initialize", "textDocument/completion", "completionItem/resolve" >>

Range(f) == { f[i] : i \in DOMAIN f }

\* Action::Params of the action registered for a method.
ParamsType(method) ==
    CASE method = "exit" -> "NoParams"
      [] method = "initialized" -> "NoParams"
      [] method = "textDocument/didOpen" -> "DidOpenTextDocumentParams"
      [] method = "textDocument/didChange" -> "DidChangeTextDocumentParams"
      [] method = "$/cancelRequest" -> "CancelParams"
      [] method = "textDocument/didSave" -> "DidSaveTextDocumentParams"
      [] method = "workspace/didChangeWatchedFiles" -> "DidChangeWatchedFilesParams"
      [] method = "shutdown" -> "NoParams"
      [] method = "initialize" -> "InitializeParams"
      [] method = "textDocument/completion" -> "TextDocumentPositionParams"
      [] method = "completionItem/resolve" -> "CompletionItem"
      [] OTHER -> "none"

\* std::mem::size_of::<A::Response>() of a request action.
\* The sizes of the response types with a `()` that takes room: the reply
\* of Request::dispatch is written for initialize too.
ResponseSize_UnitHasSize(method) ==
    CASE method = "shutdown" -> SizeOfAck
      [] method = "initialize" -> SizeOfVec
      [] OTHER -> SizeOfVec

ResponseSize(method) ==
    CASE method = "shutdown" -> SizeOfAck
      [] method = "initialize" -> SizeOfUnit
      [] OTHER -> SizeOfVec

\* The typed params a client sends with a method.
ParamsFor(method) ==
    CASE method = "initialize" -> InitializeParams
      [] method = "textDocument/didOpen" -> DidOpenParams
      [] method = "textDocument/didChange" -> DidChangeParams
      [] method = "$/cancelRequest" -> CancelParams
      [] method = "textDocument/didSave" -> DidSaveParams
      [] method = "workspace/didChangeWatchedFiles" -> WatchedFilesParams
      [] method = "textDocument/completion" -> PositionParams
      [] method = "completionItem/resolve" -> CompletionItems
      [] OTHER -> {}

(***************************************************************************)
(* Messages as the reader returns them.  form is "ExitText" for the text   *)
(* `exit`, "Garbage" for any other text that is not JSON, "Json" for a     *)
(* JSON value; method is "<absent>" when the value has no `method` member  *)
(* and "<nonstring>" when the member is not a string.                      *)
(***************************************************************************)
NoMethod == "<absent>"
NonStringMethod == "<nonstring>"
UnknownMethod == "workspace/symbol"

Methods == Range(NotificationMethods) \cup Range(RequestMethods)
              \cup {NoMethod, NonStringMethod, UnknownMethod}

Json(method, id, params) ==
    [form |-> "Json", method |-> method, id |-> id, params |-> params]

ExitText == [form |-> "ExitText", method |-> NoMethod, id |-> NoId, params |-> Untyped("absent")]
Garbage == [form |-> "Garbage", method |-> NoMethod, id |-> NoId, params |-> Untyped("absent")]

\* The methods that also come with params that are an array: one with
\* NoParams and one with a struct type of either kind, and an unknown one.
ArrayMethods == {"initialized", "shutdown", "textDocument/didOpen", UnknownMethod}

\* The typed params of a request come with every id; those of a
\* notification, whose id no handler reads, without an id and with one.
Messages ==
    {ExitText, Garbage}
    \cup { Json(m, i, p) : m \in Methods, i \in Ids, p \in GenericParams }
    \cup UNION { { Json(m, i, p) : i \in Ids, p \in ParamsFor(m) } : m \in Range(RequestMethods) }
    \cup UNION { { Json(m, i, p) : i \in {NoId, NumId(1)}, p \in ParamsFor(m) } :
                    m \in Range(NotificationMethods) }
    \cup { Json(m, i, Untyped("array")) : m \in ArrayMethods, i \in {NoId, NumId(1)} }

NoMessage == [form |-> "None", method |-> NoMethod, id |-> NoId, params |-> Untyped("absent")]


(***************************************************************************)
(* State.                                                                  *)
(***************************************************************************)
VARIABLES
    shut_down,   \* LsState.shut_down
    ctx,         \* LsService.ctx: the ActionContext
    vfs,         \* the calls the Vfs collaborator has received, in order
    output,      \* the messages written to the Output sink, in order
    len,         \* MockMsgReader.messages.len()
    cur,         \* MockMsgReader.cur
    msg,         \* what the last handle_message read (NoMessage: nothing)
    invoked,     \* the METHOD of the handler the last handle_message ran
    change,      \* what the last handle_message returned
    stage,       \* the place the last handle_message got to
    pc,          \* "running", "responded" (InitializeRequest::handle has written
                 \* its reply), "stopped" (run left its loop), "exited", "panicked"
    exit_code,   \* the code given to process::exit (-1: the process has not exited)
    line,        \* find_word_at_pos: the line, a sequence of characters
    col,         \* find_word_at_pos: the column of the cursor (pos.0)
    range,       \* find_word_at_pos: the (start, end) it returned
    wpc          \* find_word_at_pos: "idle", "called" or "returned"

\* The variables of the server and those of a call of find_word_at_pos.
serverVars == << shut_down, ctx, vfs, output, len, cur, msg, invoked, change, stage, pc, exit_code >>
wordVars == << line, col, range, wpc >>
vars == << serverVars, wordVars >>

\* The part of the state the handlers work on.
State == [shut_down |-> shut_down, ctx |-> ctx, vfs |-> vfs, output |-> output]

(***************************************************************************)
(* The Output sink (server/io.rs): success writes a reply with a numeric   *)
(* id and a result, failure writes an error reply with the given Id.       *)
(***************************************************************************)
NoValue == [ty |-> "none", items |-> <<>>]
Ack == [ty |-> "Ack", items |-> <<>>]
Unit == [ty |-> "()", items |-> <<>>]
\* InitializeResult with the server's capabilities.
InitializeResult == [ty |-> "InitializeResult", items |-> <<"incremental", "resolveProvider", ".", ":">>]
\* Vec<CompletionItem>
CompletionList(items) == [ty |-> "Vec<CompletionItem>", items |-> items]

Success(id, result) == [kind |-> "success", id |-> NumId(id), code |-> "none", result |-> result]
Failure(id, code) == [kind |-> "failure", id |-> id, code |-> code, result |-> NoValue]

Output_success(st, id, result) == [st EXCEPT !.output = Append(@, Success(id, result))]
Output_failure(st, id, code) == [st EXCEPT !.output = Append(@, Failure(id, code))]

(***************************************************************************)
(* The ActionContext (actions/mod.rs).                                     *)
(***************************************************************************)
Uninit == [tag |-> "Uninit", current_project |-> ""]
InitCtx(root) == [tag |-> "Init", current_project |-> root]

\* What a handler hands back: the state it leaves, how it ended ("Ok",
\* "Err", "Panic" or "Exit"), the exit code and the response value.
Outcome(st, res, code, value) == [st |-> st, res |-> res, code |-> code, value |-> value]
Ok(st, value) == Outcome(st, "Ok", -1, value)
Err(st) == Outcome(st, "Err", -1, NoValue)
Panic(st) == Outcome(st, "Panic", -1, NoValue)

\* ActionContext::init without the panic on an Init context: it replaces
\* the context.
ActionContext_init_Reinit(st, current_project) ==
    Ok([st EXCEPT !.ctx = InitCtx(current_project)], Unit)

\* ActionContext::init that returns an error on an Init context for the
\* handler to hand on.
ActionContext_init_Refusing(st, current_project) ==
    IF st.ctx.tag = "Uninit"
    THEN Ok([st EXCEPT !.ctx = InitCtx(current_project)], Unit)
    ELSE Err(st)

\* ActionContext::init: panics on an Init context.
ActionContext_init(st, current_project) ==
    IF st.ctx.tag = "Uninit"
    THEN Ok([st EXCEPT !.ctx = InitCtx(current_project)], Unit)
    ELSE Panic(st)

\* ActionContext::inited that hands out a context whatever the state.
ActionContext_inited_Lenient(c) == TRUE

\* ActionContext::inited: panics on an Uninit context.
ActionContext_inited(c) == c.tag = "Init"

\* lsp_data::parse_file_path without the test of the scheme.
parse_file_path_AnyScheme(uri) == uri.path

\* lsp_data::parse_file_path: the path of a `file` URI, "" for an error.
parse_file_path(uri) ==
    IF uri.scheme # "file" THEN "" ELSE uri.path

(***************************************************************************)
(* The Vfs collaborator: the model records the calls it receives.          *)
(***************************************************************************)
VfsCall(op, file, text, batch) == [op |-> op, file |-> file, text |-> text, batch |-> batch]

\* vfs::Change::ReplaceText and vfs::Change::AddFile
ReplaceText(span, file, l, text) == [kind |-> "ReplaceText", span |-> span, file |-> file, len |-> l, text |-> text]
AddFile(file, text) == [kind |-> "AddFile", span |-> "none", file |-> file, len |-> -1, text |-> text]


(***************************************************************************)
(* The handlers of the actions.  Each takes the state it works on and      *)
(* hands back an Outcome.                                                  *)
(***************************************************************************)
\* ShutdownRequest::handle without the store to the flag.
ShutdownRequest_handle_NoStore(id, params, st) ==
    Ok(st, Ack)

\* ShutdownRequest::handle
ShutdownRequest_handle(id, params, st) ==
    Ok([st EXCEPT !.shut_down = TRUE], Ack)

\* ExitNotification::handle with the two exit codes swapped.
ExitNotification_handle_Swapped(params, st) ==
    Outcome(st, "Exit", IF st.shut_down THEN 1 ELSE 0, NoValue)

\* ExitNotification::handle
ExitNotification_handle(params, st) ==
    Outcome(st, "Exit", IF st.shut_down THEN 0 ELSE 1, NoValue)

\* InitializeRequest::handle without its call of out.success.
InitializeRequest_respond_Silent(id, params, st) == st

\* The first part of InitializeRequest::handle: it writes the reply with
\* the capabilities.
InitializeRequest_respond(id, params, st) ==
    Output_success(st, id, InitializeResult)

\* The second part of InitializeRequest::handle with the missing root path
\* taken as the empty path instead of the expect.
InitializeRequest_init_DefaultRoot(params, st) ==
    ActionContext_init(st, params.root)

\* The second part of InitializeRequest::handle: it takes the root path
\* (expect) and initializes the context.
InitializeRequest_init(params, st) ==
    IF params.root = ""
    THEN Panic(st)
    ELSE ActionContext_init(st, params.root)

\* InitializeRequest::handle: replies, then takes the root path and
\* initializes the context.
InitializeRequest_handle(id, params, st) ==
    InitializeRequest_init(params, InitializeRequest_respond(id, params, st))

\* notifications::Initialized::handle
Initialized_handle(params, st) == Ok(st, Unit)

\* notifications::DidOpen::handle
DidOpen_handle(params, st) ==
    IF ~ActionContext_inited(st.ctx) THEN Panic(st)
    ELSE LET file_path == parse_file_path(params.uri)
         IN  IF file_path = "" THEN Err(st)
             ELSE Ok([st EXCEPT !.vfs = Append(@, VfsCall("set_file", file_path, params.text, <<>>))], Unit)

\* The Change built from one content-change entry by a handler that takes
\* every entry as a whole-file replacement.
ChangeOf_WholeFile(i, file_path) == AddFile(file_path, i.text)

\* The Change built from one content-change entry.
ChangeOf(i, file_path) ==
    IF i.range # "none"
    THEN ReplaceText(i.range, file_path, i.len, i.text)
    ELSE AddFile(file_path, i.text)

\* notifications::DidChange::handle; vfsOk is the result of Vfs::on_changes.
DidChange_handle(params, st, vfsOk) ==
    IF ~ActionContext_inited(st.ctx) THEN Panic(st)
    ELSE LET file_path == parse_file_path(params.uri)
         IN  IF file_path = "" THEN Err(st)
             ELSE LET changes == [k \in 1..Len(params.changes) |-> ChangeOf(params.changes[k], file_path)]
                      called == [st EXCEPT !.vfs = Append(@, VfsCall("on_changes", file_path, "", changes))]
                  IN  IF vfsOk THEN Ok(called, Unit) ELSE Panic(called)

\* notifications::Cancel::handle
Cancel_handle(params, st) == Ok(st, Unit)

\* notifications::DidSave::handle; vfsOk is the result of Vfs::file_saved.
DidSave_handle(params, st, vfsOk) ==
    IF ~ActionContext_inited(st.ctx) THEN Panic(st)
    ELSE LET file_path == parse_file_path(params.uri)
         IN  IF file_path = "" THEN Err(st)
             ELSE LET called == [st EXCEPT !.vfs = Append(@, VfsCall("file_saved", file_path, "", <<>>))]
                  IN  IF vfsOk THEN Ok(called, Unit) ELSE Panic(called)

\* notifications::DidChangeWatchedFiles::handle
DidChangeWatchedFiles_handle(params, st) == Ok(st, Unit)

\* requests::Completion::handle
Completion_handle(id, params, st) ==
    IF ~ActionContext_inited(st.ctx) THEN Panic(st)
    ELSE LET file_path == parse_file_path(params.uri)
         IN  IF file_path = "" THEN Err(st)
             ELSE Ok(st, CompletionList(<<"completion">>))

\* requests::ResolveCompletion::handle
ResolveCompletion_handle(id, params, st) ==
    Ok(st, CompletionList(<<params.item>>))

\* NotificationAction::handle of the action registered for a method.
NotificationAction_handle(method, params, st, vfsOk) ==
    CASE method = "exit" -> ExitNotification_handle(params, st)
      [] method = "initialized" -> Initialized_handle(params, st)
      [] method = "textDocument/didOpen" -> DidOpen_handle(params, st)
      [] method = "textDocument/didChange" -> DidChange_handle(params, st, vfsOk)
      [] method = "$/cancelRequest" -> Cancel_handle(params, st)
      [] method = "textDocument/didSave" -> DidSave_handle(params, st, vfsOk)
      [] method = "workspace/didChangeWatchedFiles" -> DidChangeWatchedFiles_handle(params, st)

\* RequestAction::handle of the action registered for a method.
RequestAction_handle(method, id, params, st) ==
    CASE method = "shutdown" -> ShutdownRequest_handle(id, params, st)
      [] method = "initialize" -> InitializeRequest_handle(id, params, st)
      [] method = "textDocument/completion" -> Completion_handle(id, params, st)
      [] method = "completionItem/resolve" -> ResolveCompletion_handle(id, params, st)

\* Request::dispatch that answers a failure of the handler with an error
\* reply.
Request_dispatch_ErrorReply(method, id, params, st) ==
    LET r == RequestAction_handle(method, id, params, st)
    IN  IF r.res = "Err"
        THEN Outcome(Output_failure(r.st, NumId(id), "InternalError"), "Err", -1, NoValue)
        ELSE IF r.res # "Ok" THEN r
        ELSE IF ResponseSize(method) > 0
             THEN Ok(Output_success(r.st, id, r.value), r.value)
             ELSE r

\* Request::dispatch: runs the handler and writes the reply of a response
\* type that is not zero-sized.
Request_dispatch(method, id, params, st) ==
    LET r == RequestAction_handle(method, id, params, st)
    IN  IF r.res # "Ok" THEN r
        ELSE IF ResponseSize(method) > 0
             THEN Ok(Output_success(r.st, id, r.value), r.value)
             ELSE r

\* Notification::dispatch written like Request::dispatch: it writes the
\* result of the handler to the output.
Notification_dispatch_Replying(method, params, st, vfsOk) ==
    LET r == NotificationAction_handle(method, params, st, vfsOk)
    IN  IF r.res # "Ok" THEN r
        ELSE Ok(Output_success(r.st, 0, r.value), r.value)

\* Notification::dispatch with an unwrap in place of the `?`: a failure of
\* the handler is a panic.
Notification_dispatch_Unwrap(method, params, st, vfsOk) ==
    LET r == NotificationAction_handle(method, params, st, vfsOk)
    IN  IF r.res = "Err" THEN Panic(r.st) ELSE r

\* Notification::dispatch
Notification_dispatch(method, params, st, vfsOk) ==
    NotificationAction_handle(method, params, st, vfsOk)


(***************************************************************************)
(* Parsing (RawMessage and LsService::parse_message).                      *)
(***************************************************************************)
\* char::to_digit(10): the value of a decimal digit, -1 for another character.
ToDigit(c) ==
    CASE c = "0" -> 0 [] c = "1" -> 1 [] c = "2" -> 2 [] c = "3" -> 3
      [] c = "4" -> 4 [] c = "5" -> 5 [] c = "6" -> 6 [] c = "7" -> 7
      [] c = "8" -> 8 [] c = "9" -> 9 [] OTHER -> -1

\* The digits of from_str_radix accumulated onto acc; -1 for an invalid
\* digit.  (The checked_mul and checked_add of the code fail above
\* usize::MAX; the strings of the model, of at most three characters, stay
\* far below it.)
RECURSIVE AccumulateDigits(_, _)
AccumulateDigits(digits, acc) ==
    IF digits = <<>> THEN acc
    ELSE LET d == ToDigit(Head(digits))
             next == acc * 10 + d
         IN  IF d < 0 THEN -1
             ELSE AccumulateDigits(Tail(digits), next)

\* usize::from_str_radix(s, 10).ok(): the number, -1 for None.  An unsigned
\* type takes a leading `+` and no `-`.
usize_from_str_radix(s) ==
    IF s = <<>> THEN -1
    ELSE LET digits == IF Head(s) = "+" THEN Tail(s) ELSE s
         IN  IF digits = <<>> THEN -1 ELSE AccumulateDigits(digits, 0)

\* `n as usize` of a u64: on the 64-bit target usize has the width of u64
\* and the cast keeps the number.
AsUsize(n) == n

\* RawMessage
RawMessage(method, id, params) == [method |-> method, id |-> id, params |-> params]

\* A deserialize that takes every value for every parameter type.
Deserializes_Lenient(type, params) == TRUE

\* T::Params::deserialize(&self.params): NoParams takes every value, a
\* struct type takes the values that have its fields.
Deserializes(type, params) ==
    type = "NoParams" \/ params.typed = type

\* RawMessage::parse_as_request that takes a request without an id, or
\* with the id null, as the request 0.
parse_as_request_OptionalId(raw) ==
    LET parsed_numeric_id ==
            CASE raw.id.k = "Num" -> AsUsize(raw.id.n)
              [] raw.id.k = "Str" -> usize_from_str_radix(raw.id.s)
              [] OTHER -> 0
    IN  IF ~Deserializes(ParamsType(raw.method), raw.params)
        THEN [ok |-> FALSE, id |-> 0]
        ELSE IF parsed_numeric_id >= 0
             THEN [ok |-> TRUE, id |-> parsed_numeric_id]
             ELSE [ok |-> FALSE, id |-> 0]

\* RawMessage::parse_as_request that takes 0 for an id it cannot parse.
parse_as_request_DefaultId(raw) ==
    LET parsed_numeric_id ==
            CASE raw.id.k = "Num" -> AsUsize(raw.id.n)
              [] raw.id.k = "Str" -> usize_from_str_radix(raw.id.s)
              [] OTHER -> -1
    IN  IF ~Deserializes(ParamsType(raw.method), raw.params)
        THEN [ok |-> FALSE, id |-> 0]
        ELSE [ok |-> TRUE, id |-> IF parsed_numeric_id >= 0 THEN parsed_numeric_id ELSE 0]

\* RawMessage::parse_as_request of the request action of raw.method:
\* ok, and the numeric id of the Request.
parse_as_request(raw) ==
    LET parsed_numeric_id ==
            CASE raw.id.k = "Num" -> AsUsize(raw.id.n)
              [] raw.id.k = "Str" -> usize_from_str_radix(raw.id.s)
              [] OTHER -> -1
    IN  IF ~Deserializes(ParamsType(raw.method), raw.params)
        THEN [ok |-> FALSE, id |-> 0]
        ELSE IF parsed_numeric_id >= 0
             THEN [ok |-> TRUE, id |-> parsed_numeric_id]
             ELSE [ok |-> FALSE, id |-> 0]

\* RawMessage::parse_as_notification of the notification action of
\* raw.method.
parse_as_notification(raw) ==
    [ok |-> Deserializes(ParamsType(raw.method), raw.params)]

\* The result of parse_message: tag is "Some", "None", "Err" or "Panic".
Parsed(tag, err, raw) == [tag |-> tag, err |-> err, raw |-> raw]
NoRaw == RawMessage(NoMethod, NoId, Untyped("null"))

\* LsService::parse_message that takes a text that is not JSON for a
\* message without a method.
parse_message_LenientJson(m) ==
    IF m.form # "Json" THEN Parsed("None", "none", NoRaw)
    ELSE IF m.id.k = "Bad" THEN Parsed("Panic", "none", NoRaw)
    ELSE IF m.method = NoMethod THEN Parsed("None", "none", NoRaw)
    ELSE IF m.method = NonStringMethod THEN Parsed("Err", "InvalidRequest", NoRaw)
    ELSE IF m.params.shape \in {"object", "array"}
         THEN Parsed("Some", "none", RawMessage(m.method, m.id, m.params))
    ELSE IF m.params.shape \in {"absent", "null"}
         THEN Parsed("Some", "none", RawMessage(m.method, m.id, [m.params EXCEPT !.shape = "null"]))
    ELSE Parsed("Err", "InvalidRequest", NoRaw)

\* LsService::parse_message that leaves absent params apart from null.
parse_message_KeepAbsent(m) ==
    IF m.form # "Json" THEN Parsed("Err", "ParseError", NoRaw)
    ELSE IF m.id.k = "Bad" THEN Parsed("Panic", "none", NoRaw)
    ELSE IF m.method = NoMethod THEN Parsed("None", "none", NoRaw)
    ELSE IF m.method = NonStringMethod THEN Parsed("Err", "InvalidRequest", NoRaw)
    ELSE IF m.params.shape \in {"object", "array", "absent", "null"}
         THEN Parsed("Some", "none", RawMessage(m.method, m.id, m.params))
    ELSE Parsed("Err", "InvalidRequest", NoRaw)

\* LsService::parse_message
parse_message(m) ==
    IF m.form # "Json" THEN Parsed("Err", "ParseError", NoRaw)
    ELSE IF m.id.k = "Bad" THEN Parsed("Panic", "none", NoRaw)
    ELSE IF m.method = NoMethod THEN Parsed("None", "none", NoRaw)
    ELSE IF m.method = NonStringMethod THEN Parsed("Err", "InvalidRequest", NoRaw)
    ELSE IF m.params.shape \in {"object", "array"}
         THEN Parsed("Some", "none", RawMessage(m.method, m.id, m.params))
    ELSE IF m.params.shape \in {"absent", "null"}
         THEN Parsed("Some", "none", RawMessage(m.method, m.id, [m.params EXCEPT !.shape = "null"]))
    ELSE Parsed("Err", "InvalidRequest", NoRaw)

(***************************************************************************)
(* Dispatch.                                                               *)
(***************************************************************************)
\* The result of dispatch_message: res is "Ok", "Err" (a jsonrpc::Error
\* err), "Panic" or "Exit"; invoked is the METHOD of the handler that ran.
Dispatched(st, res, err, code, ran) ==
    [st |-> st, res |-> res, err |-> err, code |-> code, invoked |-> ran]

\* LsService::dispatch_message that returns the error MethodNotFound for a
\* method no action is registered for.
dispatch_message_MethodNotFound(raw, st, vfsOk) ==
    IF raw.method \in Range(NotificationMethods)
    THEN IF ~parse_as_notification(raw).ok
         THEN Dispatched(st, "Err", "InvalidRequest", -1, "none")
         ELSE LET r == Notification_dispatch(raw.method, raw.params, st, vfsOk)
              IN  Dispatched(r.st, IF r.res = "Err" THEN "Ok" ELSE r.res, "none", r.code, raw.method)
    ELSE IF raw.method \in Range(RequestMethods)
    THEN LET request == parse_as_request(raw)
         IN  IF ~request.ok
             THEN Dispatched(st, "Err", "InvalidRequest", -1, "none")
             ELSE LET r == Request_dispatch(raw.method, request.id, raw.params, st)
                  IN  Dispatched(r.st, IF r.res = "Err" THEN "Ok" ELSE r.res, "none", r.code, raw.method)
    ELSE Dispatched(st, "Err", "MethodNotFound", -1, "none")

\* LsService::dispatch_message that takes a message with an id for a
\* request whatever its method: a notification method with an id matches
\* no request action and is an error.
dispatch_message_IdMeansRequest(raw, st, vfsOk) ==
    IF raw.method \in Range(NotificationMethods) /\ raw.id.k = "None"
    THEN IF ~parse_as_notification(raw).ok
         THEN Dispatched(st, "Err", "InvalidRequest", -1, "none")
         ELSE LET r == Notification_dispatch(raw.method, raw.params, st, vfsOk)
              IN  Dispatched(r.st, IF r.res = "Err" THEN "Ok" ELSE r.res, "none", r.code, raw.method)
    ELSE IF raw.method \in Range(NotificationMethods)
    THEN Dispatched(st, "Err", "InvalidRequest", -1, "none")
    ELSE IF raw.method \in Range(RequestMethods)
    THEN LET request == parse_as_request(raw)
         IN  IF ~request.ok
             THEN Dispatched(st, "Err", "InvalidRequest", -1, "none")
             ELSE LET r == Request_dispatch(raw.method, request.id, raw.params, st)
                  IN  Dispatched(r.st, IF r.res = "Err" THEN "Ok" ELSE r.res, "none", r.code, raw.method)
    ELSE Dispatched(st, "Ok", "none", -1, "none")

\* LsService::dispatch_message
dispatch_message(raw, st, vfsOk) ==
    IF raw.method \in Range(NotificationMethods)
    THEN IF ~parse_as_notification(raw).ok
         THEN Dispatched(st, "Err", "InvalidRequest", -1, "none")
         ELSE LET r == Notification_dispatch(raw.method, raw.params, st, vfsOk)
              IN  Dispatched(r.st, IF r.res = "Err" THEN "Ok" ELSE r.res, "none", r.code, raw.method)
    ELSE IF raw.method \in Range(RequestMethods)
    THEN LET request == parse_as_request(raw)
         IN  IF ~request.ok
             THEN Dispatched(st, "Err", "InvalidRequest", -1, "none")
             ELSE LET r == Request_dispatch(raw.method, request.id, raw.params, st)
                  IN  Dispatched(r.st, IF r.res = "Err" THEN "Ok" ELSE r.res, "none", r.code, raw.method)
    ELSE Dispatched(st, "Ok", "none", -1, "none")

\* What handle_message does with what it has read: the state it leaves,
\* what it returns ("Exit" and "Panic": it does not return), the exit code,
\* the handler it ran and the place it got to.
Handled(st, chg, code, ran, stg) ==
    [st |-> st, change |-> chg, code |-> code, invoked |-> ran, stage |-> stg]

\* The filter on the shutdown flag with the comparison inverted.
IgnoredAfterShutdown_Inverted(m, st) ==
    st.shut_down /\ m.form = "ExitText"

\* handle_message without the filter on the shutdown flag.
IgnoredAfterShutdown_Never(m, st) == FALSE

\* The filter on the shutdown flag: a message other than the text of
\* ExitNotification::METHOD is ignored once the flag is set.
IgnoredAfterShutdown(m, st) ==
    st.shut_down /\ m.form # "ExitText"

\* LsService::handle_message with the filter on the shutdown flag ahead of
\* the test of what read_message returned: the end of the stream is ignored
\* like a message once shutdown was requested.
handle_message_of_FilterFirst(m, st, vfsOk) ==
    IF st.shut_down /\ m.form # "ExitText"
    THEN Handled(st, "Continue", -1, "none", "ignored")
    ELSE IF m.form = "None"
    THEN Handled(Output_failure(st, NullId, "ParseError"), "Break", -1, "none", "eof")
    ELSE LET parsed == parse_message(m)
         IN  CASE parsed.tag = "None" -> Handled(st, "Continue", -1, "none", "no_method")
               [] parsed.tag = "Panic" -> Handled(st, "Panic", -1, "none", "parse_panic")
               [] parsed.tag = "Err" ->
                    Handled(Output_failure(st, NullId, "ParseError"), "Break", -1, "none", "parse_error")
               [] parsed.tag = "Some" ->
                    LET d == dispatch_message(parsed.raw, st, vfsOk)
                    IN  CASE d.res = "Err" ->
                               Handled(Output_failure(d.st,
                                          IF parsed.raw.id.k = "None" THEN NullId ELSE parsed.raw.id,
                                          d.err),
                                       "Break", -1, d.invoked, "dispatch_error")
                          [] d.res = "Ok" -> Handled(d.st, "Continue", -1, d.invoked, "dispatched")
                          [] d.res = "Panic" -> Handled(d.st, "Panic", -1, d.invoked, "dispatched")
                          [] d.res = "Exit" -> Handled(d.st, "Exit", d.code, d.invoked, "dispatched")

\* LsService::handle_message, from what read_message returned on.
handle_message_of(m, st, vfsOk) ==
    IF m.form = "None"
    THEN Handled(Output_failure(st, NullId, "ParseError"), "Break", -1, "none", "eof")
    ELSE IF IgnoredAfterShutdown(m, st)
    THEN Handled(st, "Continue", -1, "none", "ignored")
    ELSE LET parsed == parse_message(m)
         IN  CASE parsed.tag = "None" -> Handled(st, "Continue", -1, "none", "no_method")
               [] parsed.tag = "Panic" -> Handled(st, "Panic", -1, "none", "parse_panic")
               [] parsed.tag = "Err" ->
                    Handled(Output_failure(st, NullId, "ParseError"), "Break", -1, "none", "parse_error")
               [] parsed.tag = "Some" ->
                    LET d == dispatch_message(parsed.raw, st, vfsOk)
                    IN  CASE d.res = "Err" ->
                               Handled(Output_failure(d.st,
                                          IF parsed.raw.id.k = "None" THEN NullId ELSE parsed.raw.id,
                                          d.err),
                                       "Break", -1, d.invoked, "dispatch_error")
                          [] d.res = "Ok" -> Handled(d.st, "Continue", -1, d.invoked, "dispatched")
                          [] d.res = "Panic" -> Handled(d.st, "Panic", -1, d.invoked, "dispatched")
                          [] d.res = "Exit" -> Handled(d.st, "Exit", d.code, d.invoked, "dispatched")

\* Where the process is after handle_message returned chg (LsService::run
\* loops while it returns Continue).
PcAfter(chg) ==
    CASE chg = "Continue" -> "running"
      [] chg = "Break" -> "stopped"
      [] chg = "Exit" -> "exited"
      [] chg = "Panic" -> "panicked"

(***************************************************************************)
(* find_word_at_pos (actions/mod.rs).  A line is a sequence of characters  *)
(* (what line.chars() yields), so that a column counts characters.         *)
(***************************************************************************)
\* The characters of the lines of the model, each one char of
\* line.chars(): a letter, a digit, the underscore, the letter U+00E9 (two
\* bytes in UTF-8), a blank and a colon.
Chars == {"a", "1", "_", "U+00E9", " ", ":"}

\* char::is_alphanumeric
is_alphanumeric(c) == c \in {"a", "1", "U+00E9"}

\* The closure is_ident_char of find_word_at_pos.
is_ident_char(c) == is_alphanumeric(c) \/ c = "_"

\* The indices (from 0) of line.chars().enumerate() that pass
\* .take(n) and the filter on !is_ident_char.
TakeNonIdent(l, n) ==
    { i \in 0..(Len(l) - 1) : i < n /\ ~is_ident_char(l[i + 1]) }

\* The indices (from 0) of line.chars().enumerate() that pass
\* .skip(n) and the filter on !is_ident_char.
SkipNonIdent(l, n) ==
    { i \in 0..(Len(l) - 1) : i >= n /\ ~is_ident_char(l[i + 1]) }

\* Iterator::last and Iterator::nth(0) of an iterator of increasing indices.
Last(S) == CHOOSE i \in S : \A j \in S : j <= i
First(S) == CHOOSE i \in S : \A j \in S : i <= j

\* The range no call has returned.
NoRange == << -1, -1 >>

\* find_word_at_pos whose start is the index of the last non-identifier
\* character before the cursor, not the one after it.
find_word_at_pos_StartOnSeparator(l, c) ==
    LET before == TakeNonIdent(l, c)
        after == SkipNonIdent(l, c)
        start == IF before = {} THEN 0 ELSE Last(before)
        end == IF after = {} THEN c ELSE First(after)
    IN  << start, end >>

\* find_word_at_pos whose end falls back to the number of characters of the
\* line, not to the cursor, when no non-identifier character follows.
find_word_at_pos_EndAtLineEnd(l, c) ==
    LET before == TakeNonIdent(l, c)
        after == SkipNonIdent(l, c)
        start == IF before = {} THEN 0 ELSE Last(before) + 1
        end == IF after = {} THEN Len(l) ELSE First(after)
    IN  << start, end >>

\* actions::find_word_at_pos
find_word_at_pos(l, c) ==
    LET before == TakeNonIdent(l, c)
        after == SkipNonIdent(l, c)
        start == IF before = {} THEN 0 ELSE Last(before) + 1
        end == IF after = {} THEN c ELSE First(after)
    IN  << start, end >>

(***************************************************************************)
(* The specification.                                                      *)
(***************************************************************************)
\* LsService::new with a reader of len messages.
Init ==
    /\ shut_down = FALSE
    /\ ctx = Uninit
    /\ vfs = <<>>
    /\ output = <<>>
    /\ len \in 0..MaxMsgs
    /\ cur = 0
    /\ msg = NoMessage
    /\ invoked = "none"
    /\ change = "Continue"
    /\ stage = "new"
    /\ pc = "running"
    /\ exit_code = -1
    /\ line = <<>> /\ col = 0 /\ range = NoRange /\ wpc = "idle"

\* MessageReader::read_message of the MockMsgReader: None past the last
\* message, else the message at cur.  The contents of a slot of the reader
\* are chosen when the slot is read; every slot is read at most once.
read_message == IF cur >= len THEN {NoMessage} ELSE Messages

\* The results the Vfs can give to the call a message leads to (TRUE: Ok).
\* Only on_changes and file_saved return a Result.
VfsResults(m) ==
    IF m.method \in {"textDocument/didChange", "textDocument/didSave"}
    THEN BOOLEAN ELSE {TRUE}

\* The state in which InitializeRequest::handle has written its reply to
\* the request m.
Responded(m, st) ==
    InitializeRequest_respond(parse_as_request(parse_message(m).raw).id, m.params, st)

\* One turn of the loop of LsService::run: LsService::handle_message.  A
\* message that gets to InitializeRequest::handle is handled in two steps:
\* this one ends when the handler has written its reply.
handle_message ==
    /\ pc = "running"
    /\ cur' = cur + 1
    /\ len' = len
    /\ \E m \in read_message : \E vfsOk \in VfsResults(m) :
          LET h == handle_message_of(m, State, vfsOk)
          IN  /\ msg' = m
              /\ invoked' = h.invoked
              /\ IF h.invoked = "initialize"
                 THEN /\ output' = Responded(m, State).output
                      /\ stage' = "responded"
                      /\ pc' = "responded"
                      /\ UNCHANGED << shut_down, ctx, vfs, change, exit_code >>
                 ELSE /\ shut_down' = h.st.shut_down
                      /\ ctx' = h.st.ctx
                      /\ vfs' = h.st.vfs
                      /\ output' = h.st.output
                      /\ change' = h.change
                      /\ pc' = PcAfter(h.change)
                      /\ stage' = h.stage
                      /\ exit_code' = h.code
    /\ UNCHANGED wordVars

\* The rest of handle_message once InitializeRequest::handle has written
\* its reply: the handler takes the root path and initializes the context;
\* Request::dispatch writes the result of a handler that returned Ok if the
\* response type is not zero-sized (`()` is), dispatch_message swallows an
\* Err of the handler, and handle_message returns Continue.
initialize_context ==
    /\ pc = "responded"
    /\ LET r == InitializeRequest_init(msg.params, State)
           chg == IF r.res = "Panic" THEN "Panic" ELSE "Continue"
       IN  /\ ctx' = r.st.ctx
           /\ output' = IF r.res = "Ok" /\ ResponseSize(msg.method) > 0
                         THEN Output_success(r.st, msg.id.n, r.value).output
                         ELSE output
           /\ change' = chg
           /\ pc' = PcAfter(chg)
    /\ stage' = "dispatched"
    /\ UNCHANGED << shut_down, vfs, len, cur, msg, invoked, exit_code >>
    /\ UNCHANGED wordVars

Next == handle_message \/ initialize_context

Spec == Init /\ [][Next]_vars

\* LsService::run is a sequential loop on one thread: while handle_message
\* returns Continue the next handle_message is called, and a handler that
\* has written the reply to initialize goes on to its end.
SpecLive == Init /\ [][Next]_vars /\ WF_vars(Next)

\* The lines of at most MaxLine characters.
Lines == SeqsUpTo(Chars, MaxLine)

\* A call of find_word_at_pos with any line and any cursor: a cursor is a
\* place between characters, 0 to the number of characters of the line, and
\* a Column is any u32, so a cursor can lie beyond the end of the line.
InitWord ==
    /\ shut_down = FALSE /\ ctx = Uninit /\ vfs = <<>> /\ output = <<>>
    /\ len = 0 /\ cur = 0 /\ msg = NoMessage /\ invoked = "none"
    /\ change = "Continue" /\ stage = "new" /\ pc = "running" /\ exit_code = -1
    /\ line \in Lines
    /\ col \in 0..(Len(line) + MaxBeyond)
    /\ range = NoRange
    /\ wpc = "called"

\* find_word_at_pos runs and returns.
find_word ==
    /\ wpc = "called"
    /\ range' = find_word_at_pos(line, col)
    /\ wpc' = "returned"
    /\ UNCHANGED << line, col >>
    /\ UNCHANGED serverVars

NextWord == find_word

SpecWord == InitWord /\ [][NextWord]_vars


(***************************************************************************)
(* Properties.                                                             *)
(***************************************************************************)
\* A step of handle_message.
Handles == cur' = cur + 1

Digits == {"0", "1", "2", "3", "4", "5", "6", "7", "8", "9"}

\* s is the decimal notation of a non-negative integer.
DecimalString(s) == s # <<>> /\ \A i \in DOMAIN s : s[i] \in Digits

\* m is a JSON message of the method whose params are the ones the method
\* takes.
WellFormed(m, method) ==
    /\ m.form = "Json"
    /\ m.method = method
    /\ IF ParamsFor(method) = {}
       THEN m.params.shape \in {"absent", "null", "object"}
       ELSE m.params \in ParamsFor(method)

\* A well-formed request of the method with a numeric id.
WellFormedRequest(m, method) ==
    WellFormed(m, method) /\ m.id.k = "Num"

\* A well-formed notification of the method (a notification has no id).
WellFormedNotification(m, method) ==
    WellFormed(m, method) /\ m.id.k = "None"

\* The part of the state outside the output is as it was.
SameServerState ==
    shut_down' = shut_down /\ ctx' = ctx /\ vfs' = vfs

\* C1 (as the claim states it): a well-formed shutdown request with a
\* numeric id, handled while the shutdown flag is false, sets the flag and
\* appends exactly one success reply, an Ack with the id of the request.
C1_ShutdownAcknowledged ==
    [][ (Handles /\ ~shut_down /\ WellFormedRequest(msg', "shutdown"))
          => (shut_down' /\ output' = Append(output, Success(msg'.id.n, Ack))) ]_vars

C3_IgnoredAfterShutdown ==
    [][ (Handles /\ shut_down /\ msg'.form \in {"Json", "Garbage"})
          => /\ output' = output
             /\ SameServerState
             /\ invoked' = "none"
             /\ change' = "Continue" /\ pc' = "running" ]_vars

\* An initialize request was read after shutdown and ignored.
C3_Witness ==
    /\ shut_down /\ cur = 2
    /\ WellFormedRequest(msg, "initialize") /\ msg.params.root # ""
    /\ ctx = Uninit /\ output = <<>> /\ pc = "running"

\* C4 (as the claim states it): after a shutdown request has set the flag, a
\* well-formed exit notification in JSON is given to the exit handler
\* and the process exits with code 0.
C4_ExitAfterShutdown ==
    [][ (Handles /\ shut_down /\ WellFormedNotification(msg', "exit"))
          => (invoked' = "exit" /\ pc' = "exited" /\ exit_code' = 0) ]_vars

\* C5: a well-formed exit notification handled while the shutdown flag is
\* false exits the process with code 1 and appends nothing to the output,
\* whatever the context.
C5_ExitWithoutShutdown ==
    [][ (Handles /\ ~shut_down /\ WellFormedNotification(msg', "exit"))
          => /\ invoked' = "exit"
             /\ pc' = "exited" /\ exit_code' = 1
             /\ output' = output ]_vars

\* The process has exited with code 1 on an exit notification, on an
\* initialized context.
C5_Witness ==
    /\ pc = "exited" /\ exit_code = 1
    /\ WellFormedNotification(msg, "exit")
    /\ ctx.tag = "Init" /\ ~shut_down

\* The loop has stopped: nothing is read or handled any more.
Stopped == pc = "stopped" => UNCHANGED vars

\* C6 (as the claim states it): in every state, also after shutdown, a
\* message that is not JSON gets exactly one ParseError reply with a null id
\* and ends the loop, so that no later message is handled.
C6_ParseErrorAlways ==
    [][ /\ (Handles /\ msg'.form \in {"Garbage", "ExitText"})
             => (output' = Append(output, Failure(NullId, "ParseError"))
                   /\ change' = "Break" /\ pc' = "stopped")
        /\ Stopped ]_vars

\* C6 (amended): a message that is not JSON and that the filter on the
\* shutdown flag lets through (the flag is false, or the text is `exit`)
\* gets exactly one ParseError reply with a null id and ends the loop, so
\* that no later message is handled.
C6_ParseErrorUnlessIgnored ==
    [][ /\ (Handles /\ msg'.form \in {"Garbage", "ExitText"}
               /\ (~shut_down \/ msg'.form = "ExitText"))
             => (output' = Append(output, Failure(NullId, "ParseError"))
                   /\ SameServerState
                   /\ change' = "Break" /\ pc' = "stopped")
        /\ Stopped ]_vars

\* A text that is not JSON has ended the loop while the reader still held a
\* message.
C6_Witness ==
    /\ msg.form = "Garbage" /\ stage = "parse_error"
    /\ pc = "stopped" /\ cur < len
    /\ output = <<Failure(NullId, "ParseError")>>

\* C7: a message of a registered request method that passes the parser and
\* whose id is a string that is not a decimal number is rejected, while the
\* shutdown flag is false, with an InvalidRequest error before the handler
\* runs: flag, context and VFS are unchanged, the only message written is
\* the error reply, and the loop ends.
C7_StringIdRejected ==
    [][ (Handles /\ ~shut_down /\ msg'.form = "Json"
           /\ msg'.method \in Range(RequestMethods)
           /\ msg'.params.shape # "scalar"
           /\ msg'.id.k = "Str" /\ ~DecimalString(msg'.id.s))
          => /\ SameServerState
             /\ invoked' = "none"
             /\ output' = Append(output, Failure(msg'.id, "InvalidRequest"))
             /\ change' = "Break" /\ pc' = "stopped" ]_vars

\* An initialize request with the id "abc" has been rejected.
C7_Witness ==
    /\ WellFormed(msg, "initialize") /\ msg.params.root # ""
    /\ msg.id = StrId(<<"a", "b", "c">>)
    /\ stage = "dispatch_error" /\ ctx = Uninit /\ pc = "stopped"
    /\ output = <<Failure(msg.id, "InvalidRequest")>>

\* C8 (as the claim states it): a reply to a request that passes the parser
\* carries the id of the request as the client wrote it.
C8_IdEchoed ==
    [][ (Handles /\ msg'.form = "Json" /\ msg'.method \in Range(RequestMethods)
           /\ msg'.params.shape # "scalar" /\ msg'.id.k \in {"Num", "Str"}
           /\ Len(output') > Len(output))
          => output'[Len(output')].id = msg'.id ]_vars

\* The methods of the request actions whose Response is a value (not `()`).
ResponseMethods == {"shutdown", "textDocument/completion", "completionItem/resolve"}

\* C9 (as the claim states it, for the requests whose handler succeeds):
\* after a successful initialize, a well-formed request of a method with a
\* response type, handled while the flag is false, appends exactly one
\* success reply with its own id before the next message is read.
C9_OneReplyPerRequest ==
    [][ (Handles /\ ctx.tag = "Init" /\ ~shut_down
           /\ \E method \in ResponseMethods :
                 /\ WellFormedRequest(msg', method)
                 /\ msg'.params.uri \in {NoUri, FileUri})
          => /\ Len(output') = Len(output) + 1
             /\ SubSeq(output', 1, Len(output)) = output
             /\ output'[Len(output')].kind = "success"
             /\ output'[Len(output')].id = msg'.id ]_vars

\* C10: a well-formed message of a registered notification method appends
\* nothing to the output.
C10_NotificationsSilent ==
    [][ (Handles /\ \E method \in Range(NotificationMethods) :
                       WellFormedNotification(msg', method))
          => output' = output ]_vars

\* A didOpen notification has been handled, its text is in the VFS, and the
\* output holds the reply to initialize only.
C10_Witness ==
    /\ WellFormedNotification(msg, "textDocument/didOpen")
    /\ invoked = "textDocument/didOpen" /\ stage = "dispatched"
    /\ Len(vfs) = 1 /\ Len(output) = 1

\* C11: the context changes only from Uninit to Init, only in the step in
\* which the handler of a well-formed initialize request initializes it
\* with the root path of the request and returns; an Init context never
\* changes again, so it keeps its root and the change happens at most once.
C11_InitializedOnce ==
    [][ /\ (ctx' # ctx
             => /\ ctx = Uninit
                /\ pc = "responded" /\ invoked = "initialize"
                /\ WellFormed(msg, "initialize")
                /\ msg.params.root # ""
                /\ ctx' = InitCtx(msg.params.root)
                /\ change' = "Continue" /\ pc' = "running")
        /\ (ctx.tag = "Init" => ctx' = ctx) ]_vars

\* A second initialize request with another root got to its handler on an
\* Init context, which kept the root of the first.
C11_Witness ==
    /\ cur = 2 /\ invoked = "initialize" /\ stage = "dispatched"
    /\ ctx.tag = "Init"
    /\ msg.params.root # "" /\ msg.params.root # ctx.current_project

\* C12: the shutdown flag is false before the first message; it changes
\* only from false to true and only in a step that runs the handler of a
\* shutdown request; the handler runs only while the flag is false, so the
\* flag is written at most once; once true it stays true.
C12_ShutdownFlagSetOnce ==
    [][ /\ (cur = 0 => ~shut_down)
        /\ (shut_down' # shut_down
             => /\ ~shut_down /\ shut_down'
                /\ Handles /\ invoked' = "shutdown" /\ msg'.method = "shutdown")
        /\ ((Handles /\ invoked' = "shutdown") => (~shut_down /\ shut_down'))
        /\ (shut_down => shut_down') ]_vars

\* The flag was set by a shutdown request and an initialize request was
\* read after it: the flag is still true.
C12_Witness ==
    /\ cur = 2 /\ shut_down
    /\ WellFormedRequest(msg, "initialize") /\ stage = "ignored" /\ pc = "running"

\* C13: a well-formed initialize request handled on an Uninit context gets
\* the reply with the capabilities and its id appended while the context is
\* still Uninit; the step that then initializes the context appends
\* nothing, so the request gets exactly one reply.
C13_ReplyBeforeInitialized ==
    [][ /\ ((Handles /\ ~shut_down /\ ctx = Uninit /\ WellFormedRequest(msg', "initialize"))
             => /\ output' = Append(output, Success(msg'.id.n, InitializeResult))
                /\ ctx' = Uninit
                /\ pc' = "responded")
        /\ ((pc = "responded" /\ ctx = Uninit /\ WellFormedRequest(msg, "initialize"))
             => /\ output # <<>>
                /\ output[Len(output)] = Success(msg.id.n, InitializeResult)
                /\ output' = output
                /\ (msg.params.root # "" => ctx' = InitCtx(msg.params.root))) ]_vars

\* The reply to an initialize request is in the output and the context is
\* not initialized yet.
C13_Witness ==
    /\ pc = "responded" /\ ctx = Uninit
    /\ WellFormedRequest(msg, "initialize") /\ msg.params.root # ""
    /\ output = << Success(msg.id.n, InitializeResult) >>

\* C14: an initialize request without a root path that gets to its handler
\* is not answered with an error reply (what the handler writes is its
\* success reply); the handler then panics: nothing more is written, the
\* loop does not go on, and the context is as it was, Uninit if it was
\* Uninit.
C14_NoRootPathIsFatal ==
    [][ /\ ((Handles /\ invoked' = "initialize" /\ msg'.params.root = "")
             => /\ pc' = "responded"
                /\ Len(output') = Len(output) + 1
                /\ output'[Len(output')].kind = "success"
                /\ ctx' = ctx)
        /\ ((pc = "responded" /\ msg.params.root = "")
             => /\ pc' = "panicked" /\ change' = "Panic"
                /\ output' = output
                /\ ctx' = ctx
                /\ cur' = cur) ]_vars

\* The handler of a first initialize request without a root path panicked
\* on an Uninit context.
C14_Witness ==
    /\ cur = 1 /\ pc = "panicked" /\ stage = "dispatched"
    /\ WellFormedRequest(msg, "initialize") /\ msg.params.root = ""
    /\ ctx = Uninit
    /\ \A i \in DOMAIN output : output[i].kind # "failure"

\* The actions whose handlers call ActionContext::inited.
NeedsInitialized(m) ==
    \/ WellFormed(m, "textDocument/didOpen")
    \/ WellFormed(m, "textDocument/didChange")
    \/ WellFormed(m, "textDocument/didSave")
    \/ WellFormedRequest(m, "textDocument/completion")

\* C15: a well-formed didOpen, didChange, didSave or completion message
\* dispatched on an Uninit context makes its handler panic: nothing is
\* written to the output, the Vfs gets no call and the loop does not go on.
C15_UninitializedIsFatal ==
    [][ (Handles /\ ~shut_down /\ ctx = Uninit /\ NeedsInitialized(msg'))
          => /\ invoked' = msg'.method
             /\ change' = "Panic" /\ pc' = "panicked"
             /\ output' = output
             /\ vfs' = vfs
             /\ ctx' = ctx ]_vars

\* A didChange notification for a `file` document was dispatched as the
\* first message and its handler panicked.
C15_Witness ==
    /\ cur = 1 /\ pc = "panicked" /\ ctx = Uninit
    /\ WellFormedNotification(msg, "textDocument/didChange")
    /\ msg.params.uri = FileUri
    /\ invoked = "textDocument/didChange"
    /\ vfs = <<>> /\ output = <<>>

\* C16: a well-formed initialize request handled on an Init context is not
\* answered with an error reply (the handler writes its success reply);
\* ActionContext::init then panics: the loop does not go on, nothing more
\* is written and the context keeps the root it has.
C16_SecondInitializeIsFatal ==
    [][ /\ ((Handles /\ ~shut_down /\ ctx.tag = "Init" /\ WellFormedRequest(msg', "initialize"))
             => /\ pc' = "responded"
                /\ output' = Append(output, Success(msg'.id.n, InitializeResult))
                /\ ctx' = ctx)
        /\ ((pc = "responded" /\ ctx.tag = "Init" /\ msg.params.root # "")
             => /\ pc' = "panicked" /\ change' = "Panic"
                /\ output' = output
                /\ ctx' = ctx
                /\ cur' = cur) ]_vars

\* Two initialize requests with a root path were handled: both got the
\* success reply and the second made the handler panic.
C16_Witness ==
    /\ cur = 2 /\ pc = "panicked" /\ stage = "dispatched"
    /\ WellFormedRequest(msg, "initialize") /\ msg.params.root # ""
    /\ ctx.tag = "Init"
    /\ Len(output) = 2
    /\ \A i \in DOMAIN output : output[i].kind = "success"

\* The handler of the well-formed request m returns Err in the current
\* state.
RequestHandlerFails(m) ==
    \E method \in Range(RequestMethods) :
        /\ WellFormedRequest(m, method)
        /\ RequestAction_handle(method, m.id.n, m.params, State).res = "Err"

\* C17: when the handler of a well-formed request returns Err, nothing is
\* written to the output, the shutdown flag, the context and the Vfs are as
\* they were, and handle_message returns Continue.
C17_FailedRequestUnanswered ==
    [][ (Handles /\ ~shut_down /\ RequestHandlerFails(msg'))
          => /\ invoked' = msg'.method
             /\ output' = output
             /\ SameServerState
             /\ change' = "Continue" /\ pc' = "running" ]_vars

\* A completion request for a document that is not a file was handled
\* after an initialize request: the output holds the reply to initialize
\* only and the loop goes on.
C17_Witness ==
    /\ cur = 2 /\ pc = "running" /\ ctx.tag = "Init"
    /\ WellFormedRequest(msg, "textDocument/completion")
    /\ msg.params.uri = GitUri
    /\ invoked = "textDocument/completion" /\ change = "Continue"
    /\ Len(output) = 1 /\ output[1].result = InitializeResult

\* The handler of the well-formed notification m returns Err in the
\* current state (a handler that returns Err has not called the Vfs).
NotificationHandlerFails(m) ==
    \E method \in Range(NotificationMethods) :
        /\ WellFormed(m, method)
        /\ NotificationAction_handle(method, m.params, State, TRUE).res = "Err"

\* C18: when the handler of a well-formed notification returns Err, nothing
\* is written to the output and handle_message returns Continue.
C18_FailedNotificationSwallowed ==
    [][ (Handles /\ ~shut_down /\ NotificationHandlerFails(msg'))
          => /\ invoked' = msg'.method
             /\ output' = output
             /\ change' = "Continue" /\ pc' = "running" ]_vars

\* A didSave notification for a document that is not a file was handled
\* after an initialize request and the loop goes on.
C18_Witness ==
    /\ cur = 2 /\ pc = "running" /\ ctx.tag = "Init"
    /\ WellFormedNotification(msg, "textDocument/didSave")
    /\ msg.params.uri = GitUri
    /\ invoked = "textDocument/didSave" /\ change = "Continue"
    /\ Len(output) = 1

\* m is a JSON message that parse_message takes (an id of a shape Id
\* deserializes from or none, params that are an object, null or absent)
\* and whose method no action is registered for.
UnknownMethodMessage(m) ==
    /\ m.form = "Json"
    /\ m.method \notin Range(NotificationMethods) \cup Range(RequestMethods)
                      \cup {NoMethod, NonStringMethod}
    /\ m.id.k # "Bad"
    /\ m.params.shape # "scalar"

\* C19: a parseable message of a method no action is registered for, with
\* or without an id, leaves the output, the context, the shutdown flag and
\* the Vfs as they were, runs no handler, and handle_message returns
\* Continue.
C19_UnknownMethodIgnored ==
    [][ (Handles /\ UnknownMethodMessage(msg'))
          => /\ invoked' = "none"
             /\ output' = output
             /\ SameServerState
             /\ change' = "Continue" /\ pc' = "running" ]_vars

\* A message of an unknown method with an id got to dispatch_message
\* after an initialize request, and the loop goes on with the output and
\* the context as the initialize request left them.
C19_Witness ==
    /\ cur = 2 /\ pc = "running" /\ stage = "dispatched"
    /\ UnknownMethodMessage(msg) /\ msg.id.k = "Num"
    /\ ctx.tag = "Init" /\ ~shut_down
    /\ Len(output) = 1 /\ change = "Continue"

\* m is a JSON message whose method is not a string, or whose method is a
\* string and whose params are a scalar (the id is of a shape Id
\* deserializes from, or absent).
MalformedStructure(m) ==
    /\ m.form = "Json"
    /\ m.id.k # "Bad"
    /\ \/ m.method = NonStringMethod
       \/ (m.method \notin {NoMethod, NonStringMethod} /\ m.params.shape = "scalar")

\* C20 (as the claim states it): a JSON message whose method is not a
\* string or whose params are neither an object, an array nor null is
\* answered with one error reply of kind InvalidRequest, no handler runs
\* and the loop ends.
C20_InvalidRequestReply ==
    [][ (Handles /\ ~shut_down /\ MalformedStructure(msg'))
          => /\ Len(output') = Len(output) + 1
             /\ output'[Len(output')].kind = "failure"
             /\ output'[Len(output')].code = "InvalidRequest"
             /\ invoked' = "none"
             /\ change' = "Break" /\ pc' = "stopped" ]_vars

\* C21: a message of a registered request method that passes the parser
\* and has no id, or the id null, is rejected, while the shutdown flag is
\* false, with one InvalidRequest error reply with the id null; no handler
\* runs, flag, context and Vfs are as they were, and the loop ends.
C21_RequestWithoutIdRejected ==
    [][ (Handles /\ ~shut_down /\ msg'.form = "Json"
           /\ msg'.method \in Range(RequestMethods)
           /\ msg'.params.shape # "scalar"
           /\ msg'.id.k \in {"None", "Null"})
          => /\ SameServerState
             /\ invoked' = "none"
             /\ output' = Append(output, Failure(NullId, "InvalidRequest"))
             /\ change' = "Break" /\ pc' = "stopped" ]_vars

\* A shutdown request without an id has been rejected and the flag is
\* still false.
C21_Witness ==
    /\ WellFormed(msg, "shutdown") /\ msg.id = NoId
    /\ stage = "dispatch_error" /\ pc = "stopped" /\ ~shut_down
    /\ output = << Failure(NullId, "InvalidRequest") >>

\* m is a message of a registered method that passes the parser and whose
\* params are not of the parameter type of the action (absent, null, or an
\* object without the fields of the type).
MistypedParams(m) ==
    /\ m.form = "Json"
    /\ m.method \in Range(NotificationMethods) \cup Range(RequestMethods)
    /\ m.id.k # "Bad"
    /\ m.params.shape # "scalar"
    /\ ParamsType(m.method) # "NoParams"
    /\ m.params.typed # ParamsType(m.method)

\* C22: a message of a registered notification or request method whose
\* params do not deserialize into the parameter type of the action is
\* answered, while the shutdown flag is false, with one InvalidRequest
\* error reply that carries the id of the message (null without one); no
\* handler runs, flag, context and Vfs are as they were, and the loop ends.
C22_MistypedParamsRejected ==
    [][ (Handles /\ ~shut_down /\ MistypedParams(msg'))
          => /\ SameServerState
             /\ invoked' = "none"
             /\ output' = Append(output,
                              Failure(IF msg'.id.k = "None" THEN NullId ELSE msg'.id,
                                      "InvalidRequest"))
             /\ change' = "Break" /\ pc' = "stopped" ]_vars

\* A didOpen message with the id "abc" and an object without the fields of
\* DidOpenTextDocumentParams was rejected on an Init context: the error
\* reply carries the id and the Vfs got no call.
C22_Witness ==
    /\ cur = 2 /\ pc = "stopped" /\ stage = "dispatch_error"
    /\ msg.method = "textDocument/didOpen" /\ msg.params = Untyped("object")
    /\ msg.id = StrId(<<"a", "b", "c">>)
    /\ ctx.tag = "Init" /\ vfs = <<>>
    /\ Len(output) = 2 /\ output[2] = Failure(msg.id, "InvalidRequest")

\* C23 (as the claim states it): a JSON message whose id is of a shape Id
\* does not deserialize from does not make the parser fail or crash; with
\* a registered request method (and params the parser takes) it is
\* answered with an InvalidRequest error reply and the loop ends; without
\* a method it is discarded like the message without the id.
C23_IdNotValidatedAtParseTime ==
    [][ (Handles /\ ~shut_down /\ msg'.form = "Json" /\ msg'.id.k = "Bad")
          => /\ change' # "Panic" /\ pc' # "panicked"
             /\ stage' \notin {"parse_panic", "parse_error"}
             /\ ((msg'.method \in Range(RequestMethods) /\ msg'.params.shape # "scalar")
                  => /\ Len(output') = Len(output) + 1
                     /\ output'[Len(output')].kind = "failure"
                     /\ output'[Len(output')].code = "InvalidRequest"
                     /\ change' = "Break")
             /\ (msg'.method = NoMethod
                  => (output' = output /\ change' = "Continue")) ]_vars

\* C24 (as the claim states it): a JSON message without a method is
\* discarded: the output, the context, the shutdown flag and the Vfs are
\* as they were and handle_message returns Continue.
C24_NoMethodDiscarded ==
    [][ (Handles /\ msg'.form = "Json" /\ msg'.method = NoMethod)
          => /\ invoked' = "none"
             /\ output' = output
             /\ SameServerState
             /\ change' = "Continue" /\ pc' = "running" ]_vars

\* C25 (as the claim states it): on an Init context every well-formed
\* completion request, whatever the URI of the document, is answered with
\* one success reply that carries its id and a list of completion items.
C25_CompletionAlwaysAnswered ==
    [][ (Handles /\ ~shut_down /\ ctx.tag = "Init"
           /\ WellFormedRequest(msg', "textDocument/completion"))
          => /\ Len(output') = Len(output) + 1
             /\ output'[Len(output')].kind = "success"
             /\ output'[Len(output')].id = msg'.id
             /\ output'[Len(output')].result.ty = "Vec<CompletionItem>"
             /\ change' = "Continue" ]_vars

\* C26 (as the claim states it): the reply to a well-formed
\* completionItem/resolve request carries as its result the completion
\* item of the params, whether the context is Uninit or Init.
C26_ResolveIsIdentity ==
    [][ (Handles /\ ~shut_down /\ WellFormedRequest(msg', "completionItem/resolve"))
          => /\ Len(output') = Len(output) + 1
             /\ output'[Len(output')].kind = "success"
             /\ output'[Len(output')].result = [ty |-> "CompletionItem", items |-> msg'.params.item] ]_vars

\* m is a well-formed didOpen, didChange or didSave notification for a
\* document whose URI is not of the `file` scheme.
NonFileDocument(m) ==
    /\ \/ WellFormed(m, "textDocument/didOpen")
       \/ WellFormed(m, "textDocument/didChange")
       \/ WellFormed(m, "textDocument/didSave")
    /\ m.params.uri.scheme # "file"

\* C27: on an Init context a didOpen, didChange or didSave notification
\* for a document whose URI is not of the `file` scheme gets to its handler
\* and changes nothing: the Vfs gets no call, nothing is written to the
\* output, the context and the flag stay, and handle_message returns
\* Continue.
C27_NonFileUriIsNoOp ==
    [][ (Handles /\ ~shut_down /\ ctx.tag = "Init" /\ NonFileDocument(msg'))
          => /\ invoked' = msg'.method
             /\ vfs' = vfs
             /\ output' = output
             /\ ctx' = ctx /\ shut_down' = shut_down
             /\ change' = "Continue" /\ pc' = "running" ]_vars

\* A didChange notification for a `git` document was handled after an
\* initialize request: the Vfs has got no call and the loop goes on.
C27_Witness ==
    /\ cur = 2 /\ pc = "running" /\ ctx.tag = "Init"
    /\ WellFormedNotification(msg, "textDocument/didChange")
    /\ msg.params.uri = GitUri /\ Len(msg.params.changes) = 1
    /\ invoked = "textDocument/didChange"
    /\ vfs = <<>> /\ Len(output) = 1

\* The identifier characters around the cursor c of the line l: the run
\* starts at the smallest s <= c with identifier characters only between s
\* and c, and ends at the largest e >= c with identifier characters only
\* between c and e.
RunStart(l, c) ==
    CHOOSE s \in 0..c :
        /\ \A i \in (s + 1)..c : is_ident_char(l[i])
        /\ \A t \in 0..(s - 1) : \E i \in (t + 1)..c : ~is_ident_char(l[i])
RunEnd(l, c) ==
    CHOOSE e \in c..Len(l) :
        /\ \A i \in (c + 1)..e : is_ident_char(l[i])
        /\ \A t \in (e + 1)..Len(l) : \E i \in (c + 1)..t : ~is_ident_char(l[i])

\* C28 (as the claim states it): for every line and every cursor of the
\* line, find_word_at_pos returns the start and the end of the maximal run
\* of identifier characters that contains or abuts the cursor, also when
\* the run goes to the end of the line.
C28_MaximalIdentifierRun ==
    (wpc = "returned" /\ col <= Len(line)) => range = << RunStart(line, col), RunEnd(line, col) >>

\* The character before the cursor c of the line l and the character at
\* it (the one after the cursor) are both non-identifier characters.
BetweenSeparators(l, c) ==
    /\ c >= 1 /\ c < Len(l)
    /\ ~is_ident_char(l[c])
    /\ ~is_ident_char(l[c + 1])

\* C29: when the character before the cursor and the character at the
\* cursor are both non-identifier characters, find_word_at_pos returns the
\* empty range at the cursor.
C29_EmptyBetweenSeparators ==
    (wpc = "returned" /\ BetweenSeparators(line, col))
        => range = << col, col >>

\* find_word_at_pos has returned the empty range for a cursor between two
\* separators that have a word before and a word after them.
C29_Witness ==
    /\ wpc = "returned"
    /\ line = << "a", " ", ":", "_" >> /\ col = 2
    /\ range = << 2, 2 >>

\* The edit the claim names for the content-change entry e of a document
\* at path: a replace-range edit with the range, the optional length and
\* the text of e when e has a range, a whole-file replacement with the
\* text of e when it has none.
EditFor(e, path) ==
    IF e.range # "none"
    THEN [kind |-> "ReplaceText", span |-> e.range, file |-> path, len |-> e.len, text |-> e.text]
    ELSE [kind |-> "AddFile", span |-> "none", file |-> path, len |-> -1, text |-> e.text]

ParamsTwin(m) ==
    [m EXCEPT !.params.shape = IF @ = "absent" THEN "null" ELSE "absent"]

\* C31: of a JSON message with a string method (and an id the parser
\* takes) the parser makes the same RawMessage, with params null, whether
\* the params are absent or null, and handle_message does with it what it
\* does with its twin; params that are an object or an array are in the
\* RawMessage as they are in the message, with its method and id.
C31_ParamsNormalized ==
    [][ (Handles /\ msg'.form = "Json" /\ msg'.id.k # "Bad"
           /\ msg'.method \notin {NoMethod, NonStringMethod})
          => LET p == parse_message(msg')
             IN  /\ msg'.params.shape \in {"absent", "null"}
                      => LET h == handle_message_of(ParamsTwin(msg'), State, TRUE)
                         IN  /\ p.tag = "Some"
                             /\ p.raw = RawMessage(msg'.method, msg'.id, Untyped("null"))
                             /\ p.raw = parse_message(ParamsTwin(msg')).raw
                             /\ output' = h.st.output
                             /\ shut_down' = h.st.shut_down
                             /\ ctx' = h.st.ctx /\ vfs' = h.st.vfs
                             /\ invoked' = h.invoked
                             /\ change' = h.change
                 /\ msg'.params.shape \in {"object", "array"}
                      => /\ p.tag = "Some"
                         /\ p.raw = RawMessage(msg'.method, msg'.id, msg'.params) ]_vars

\* A shutdown request with the params null got to its handler, as the one
\* without params does.
C31_Witness ==
    /\ cur = 1 /\ shut_down
    /\ WellFormedRequest(msg, "shutdown") /\ msg.params.shape = "null"
    /\ invoked = "shutdown" /\ stage = "dispatched"

\* m is a well-formed message of a registered notification method that
\* carries an id (null, a number or a string).
NotificationWithId(m) ==
    /\ \E method \in Range(NotificationMethods) : WellFormed(m, method)
    /\ m.id.k \in {"Null", "Num", "Str"}

\* C32 (as the claim states it): a well-formed message of a registered
\* notification method that carries an id is handled as a notification,
\* gets no reply, and the loop continues.
C32_NotificationWithIdContinues ==
    [][ (Handles /\ ~shut_down /\ NotificationWithId(msg'))
          => /\ invoked' = msg'.method
             /\ output' = output
             /\ change' = "Continue" /\ pc' = "running" ]_vars

\* C32 (amended): a well-formed message of a registered notification
\* method that carries an id is handled as a notification, exactly as the
\* same message without the id: its handler runs and nothing is written
\* to the output; the loop continues unless the handler ends the process
\* (exit) or panics (an action that needs an Init context on Uninit, or a
\* failure of the Vfs call it has made).
C32_NotificationWithIdLikeWithout ==
    [][ (Handles /\ ~shut_down /\ NotificationWithId(msg'))
          => /\ invoked' = msg'.method
             /\ output' = output
             /\ \E vfsOk \in VfsResults(msg') :
                   LET h == handle_message_of([msg' EXCEPT !.id = NoId], State, vfsOk)
                   IN  /\ shut_down' = h.st.shut_down /\ ctx' = h.st.ctx
                       /\ vfs' = h.st.vfs /\ output' = h.st.output
                       /\ change' = h.change /\ exit_code' = h.code
             /\ (msg'.method = "exit" => change' = "Exit")
             /\ ((ctx = Uninit /\ NeedsInitialized(msg')) => change' = "Panic")
             /\ ((msg'.method # "exit" /\ ~(ctx = Uninit /\ NeedsInitialized(msg')))
                  => \/ change' = "Continue"
                     \/ (change' = "Panic" /\ Len(vfs') = Len(vfs) + 1)) ]_vars

\* A didOpen notification with the id 1 for a `file` document was handled
\* after an initialize request: the Vfs got the file, the output holds the
\* reply to initialize only and the loop goes on.
C32_Witness ==
    /\ cur = 2 /\ pc = "running" /\ ctx.tag = "Init"
    /\ WellFormed(msg, "textDocument/didOpen") /\ msg.id = NumId(1)
    /\ msg.params.uri = FileUri
    /\ invoked = "textDocument/didOpen"
    /\ Len(vfs) = 1 /\ vfs[1].op = "set_file"
    /\ Len(output) = 1 /\ output[1].result = InitializeResult

\* C33: one handle_message appends at most one message, a success reply
\* or an error reply, to the output and changes nothing already written;
\* the part of handle_message that follows the reply written by
\* InitializeRequest::handle writes nothing, so initialize is answered
\* once.
C33_AtMostOneReply ==
    [][ /\ Len(output') \in {Len(output), Len(output) + 1}
        /\ SubSeq(output', 1, Len(output)) = output
        /\ Len(output') = Len(output) + 1
             => output'[Len(output')].kind \in {"success", "failure"}
        /\ pc = "responded" => output' = output
        /\ (Handles /\ invoked' = "initialize")
             => /\ Len(output') = Len(output) + 1
                /\ output'[Len(output')].kind = "success"
                /\ output'[Len(output')].result = InitializeResult ]_vars

\* The initialize request with the id 2 went through the whole of
\* handle_message as first message: the context is Init, the loop goes on
\* and the output holds its one reply.
C33_Witness ==
    /\ cur = 1 /\ pc = "running" /\ stage = "dispatched"
    /\ invoked = "initialize" /\ msg.id = NumId(2)
    /\ ctx.tag = "Init"
    /\ output = << Success(2, InitializeResult) >>

\* The loop of LsService::run is over: handle_message returned Break, the
\* process exited, or the thread panicked.
Terminated == pc \in {"stopped", "exited", "panicked"}

\* C34: when read_message returns no message, handle_message appends one
\* ParseError error reply with the null id, changes nothing else and returns
\* Break, whether shutdown was requested or not; handle_message returns
\* Break only with an error reply appended; and every run over the finite
\* queue of the reader comes to its end, which is an exit of the process
\* only when the last message read is an exit.
C34_EndOfStreamStops ==
    /\ [][ (Handles /\ msg'.form = "None")
             => /\ output' = Append(output, Failure(NullId, "ParseError"))
                /\ change' = "Break" /\ pc' = "stopped"
                /\ shut_down' = shut_down /\ ctx' = ctx /\ vfs' = vfs ]_vars
    /\ [][ (change' = "Break" /\ change # "Break")
             => /\ Handles
                /\ Len(output') = Len(output) + 1
                /\ output'[Len(output')].kind = "failure"
                /\ pc' = "stopped" ]_vars
    /\ [][ pc' = "exited" => (msg'.form = "ExitText" \/ msg'.method = "exit") ]_vars
    /\ <>Terminated

\* After a shutdown request the reader of one message reported the end of
\* the stream: the loop stopped with the one ParseError reply with the
\* null id in the output.
C34_Witness ==
    /\ cur = 2 /\ len = 1 /\ shut_down
    /\ msg.form = "None" /\ stage = "eof"
    /\ change = "Break" /\ pc = "stopped"
    /\ output = << Failure(NullId, "ParseError") >>

\* C35: for every line and every cursor, also one beyond the end of the
\* line, the range find_word_at_pos returns has start <= cursor <= end, and
\* every character of the line at an index from start up to but not
\* including end, as far as the line goes, is an identifier character.
C35_RangeAroundCursor ==
    wpc = "returned"
        => /\ range[1] <= col /\ col <= range[2]
           /\ \A i \in range[1]..(range[2] - 1) :
                 i < Len(line) => is_ident_char(line[i + 1])

\* find_word_at_pos has returned for a cursor two columns beyond the end of
\* a line that ends with a word: the range runs from the start of the word
\* to the cursor.
C35_Witness ==
    /\ wpc = "returned"
    /\ line = << ":", "a", "1" >> /\ col = 5
    /\ range = << 1, 5 >>

====
